---- MODULE Spec2Model ----
(***************************************************************************)
(* MailerService (src/libs/constants/src/lib/provider.constant.ts).        *)
(*                                                                         *)
(* The service keeps one process-wide default binding (defaultAccount,     *)
(* transporter).  Every async method is modelled as a call that runs       *)
(* atomically from one await to the next: a step of the model is the       *)
(* synchronous code the JavaScript event loop runs between two awaits.     *)
(* Calls of different requests interleave at their awaits.                 *)
(***************************************************************************)
EXTENDS Integers, Sequences, FiniteSets, TLC

VARIABLES
  shouldSetDefaultAccountOnMount, \* the boot flag read by the constructor
  booted,            \* onModuleInit has returned: requests are served
  accountRepo,       \* the Account table: a set of account rows
  providerRepo,      \* the Provider table: provider id -> provider row
  pendingUpdates,    \* provider id -> number of status updates in flight
  defaultAccount,    \* this.defaultAccount (NoAccount = undefined)
  transporter,       \* this.transporter   (NoTransport = undefined)
  calls,             \* call id -> the call's locals and position
  served,            \* number of requests accepted so far
  validated,         \* ids of the saved providers validateTransport has found valid
  ev                 \* the call the last step ended, as it returned or raised

vars == <<shouldSetDefaultAccountOnMount, booted, accountRepo, providerRepo,
          pendingUpdates, defaultAccount, transporter, calls, served,
          validated, ev>>

-----------------------------------------------------------------------------
(* Bounds *)

\* Requests accepted over one run of the service.
MaxCalls == 2

\* .take(5) of the candidate query.
TakeLimit == 5

BootCall == 0
\* Two calls run at the same time: two requests, or the selector started by
\* onModuleInit and one request.
Slots == {1, 2}
CallIds == {BootCall} \cup Slots

-----------------------------------------------------------------------------
(* Values *)

\* Provider.smtp of a provider with no SMTP descriptor.
NoSmtp == 0

NoProvider == [id |-> 0, status |-> "none", connectionType |-> "none", smtp |-> NoSmtp]

NoAccount == [id |-> 0, email |-> "", providerId |-> 0, createdAt |-> 0,
              provider |-> NoProvider]

NoTransport == [host |-> NoSmtp, user |-> "", type |-> "none", by |-> "none"]

\* The provider rows the store can hold, without their status: two usable
\* providers (password and OAuth2) and one saved without an SMTP descriptor.
ProviderIds == {1, 2, 3}

ProviderRow(id, status) ==
  [id |-> id, status |-> status,
   connectionType |-> IF id = 2 THEN "oAuth" ELSE "password",
   smtp |-> IF id = 3 THEN NoSmtp ELSE 10 + id]

\* A provider entity that was never saved: it has no id.
UnsavedProvider == [id |-> 0, status |-> "active", connectionType |-> "password", smtp |-> 10]

AccountRow(id, providerId, createdAt) ==
  [id |-> id,
   email |-> CASE id = 1 -> "a1@mail" [] id = 2 -> "a2@mail" [] id = 3 -> "a3@mail"
               [] id = 4 -> "a4@mail" [] id = 5 -> "a5@mail" [] OTHER -> "b@mail",
   providerId |-> providerId, createdAt |-> createdAt, provider |-> NoProvider]

a1 == AccountRow(1, 1, 1)
a2 == AccountRow(2, 2, 2)
a3 == AccountRow(3, 1, 3)
a4 == AccountRow(4, 3, 4)
\* an account whose provider row is gone
a5 == AccountRow(5, 9, 5)

\* One account more than the candidate query takes, all of one provider.
Crowd == { AccountRow(10 + k, 1, k) : k \in 1..(TakeLimit + 1) }

\* The account tables the service is started on.
Fixtures == { {}, {a1, a2, a5}, {a1, a2, a3, a5}, {a2, a4}, Crowd }

\* The configurations the service is started in: the boot flag and the
\* account table.  The tables with three candidates and more are started
\* without the boot selector; their selector runs are those resetDefault
\* starts.
StartConfigurations ==
  { cfg \in BOOLEAN \X Fixtures : cfg[1] => (a3 \notin cfg[2] /\ cfg[2] # Crowd) }

\* An account id no row has.
UnknownAccountId == CHOOSE n \in 1..9 : \A a \in UNION Fixtures : a.id # n


-----------------------------------------------------------------------------
(* Calls *)

IdleCall ==
  [op |-> "none", pc |-> "idle", accountId |-> 0, account |-> NoAccount,
   provider |-> NoProvider, email |-> "", transporter |-> NoTransport,
   data |-> <<>>, index |-> 0, tried |-> <<>>, defaultAccountIsSet |-> FALSE,
   looked |-> FALSE, built |-> FALSE, updateIssued |-> FALSE,
   error |-> "", isValid |-> FALSE, message |-> "", status |-> 0, info |-> 0,
   from |-> "", dfltAtCall |-> NoAccount, cachedAtCall |-> NoTransport,
   body |-> {}, follows |-> "none", result |-> 0, cleared |-> 0]

\* What ev holds after a step that ended no call.
NoEvent == [name |-> "none", c |-> 0, call |-> IdleCall]

Event(name, c, call) ==
  IF call.pc \in {"returned", "raised"}
    THEN [name |-> name, c |-> c, call |-> call]
    ELSE NoEvent

-----------------------------------------------------------------------------
(* Pure helpers *)

\* createTransport(provider, email) throws a TypeError on `smtp.data` when
\* the provider has no SMTP descriptor.
createTransportThrows(provider) == provider.smtp = NoSmtp

\* createTransport using the login auth type for every provider.
createTransport_LoginOnly(provider, email, dflt, by) ==
  [host |-> provider.smtp,
   user |-> IF email # "" THEN email ELSE IF dflt.email # "" THEN dflt.email ELSE "",
   type |-> "login",
   by |-> by]

\* The handle ct(payload) returns.  `dflt` is this.defaultAccount at the time
\* of the call; `by` names the call site that built the handle, which is
\* what tells one handle from another built with the same options.
createTransport(provider, email, dflt, by) ==
  [host |-> provider.smtp,
   user |-> IF email # "" THEN email ELSE IF dflt.email # "" THEN dflt.email ELSE "",
   type |-> IF provider.connectionType = "oAuth" THEN "oauth2" ELSE "login",
   by |-> by]

\* The order of the ProviderStatus values under ORDER BY provider.status ASC.
StatusOrder(status) == IF status = "active" THEN 0 ELSE 1

\* x is not after y under ORDER BY provider.status ASC, account.createdAt ASC.
Precedes(x, y) ==
  \/ StatusOrder(x.provider.status) < StatusOrder(y.provider.status)
  \/ /\ StatusOrder(x.provider.status) = StatusOrder(y.provider.status)
     /\ x.createdAt <= y.createdAt

\* innerJoinAndSelect('account.provider'): the account rows whose provider
\* row exists, each with that row attached.
InnerJoin(accounts, providers) ==
  { [a EXCEPT !.provider = providers[a.providerId]] :
      a \in { x \in accounts : x.providerId \in DOMAIN providers } }

\* relations: ['provider'] (a left join): every row, its provider attached
\* when the provider row exists.
LeftJoin(accounts, providers) ==
  { [a EXCEPT !.provider = IF a.providerId \in DOMAIN providers
                             THEN providers[a.providerId] ELSE NoProvider] :
      a \in accounts }

RECURSIVE AnyOrder(_)
\* Every sequence that lists the rows of S, in any order.
AnyOrder(S) ==
  IF S = {} THEN { <<>> }
  ELSE UNION { { <<m>> \o rest : rest \in AnyOrder(S \ {m}) } : m \in S }

RECURSIVE Ordered(_)
\* Every sequence that lists the rows of S in the query's order.
Ordered(S) ==
  IF S = {} THEN { <<>> }
  ELSE UNION { { <<m>> \o rest : rest \in Ordered(S \ {m}) } :
               m \in { x \in S : \A y \in S : Precedes(x, y) } }

Take(s, n) == SubSeq(s, 1, IF Len(s) < n THEN Len(s) ELSE n)

\* getMany() of the candidate query with its ORDER BY left out.
getMany_Unordered(accounts, providers) ==
  { Take(s, TakeLimit) : s \in AnyOrder(InnerJoin(accounts, providers)) }

\* getMany() of a candidate query that leaves out the accounts of
\* inactive providers.
getMany_ActiveOnly(accounts, providers) ==
  { Take(s, TakeLimit) :
      s \in Ordered({ a \in InnerJoin(accounts, providers) :
                       a.provider.status = "active" }) }

\* getMany() of the candidate query without its .take(5).
getMany_NoTake(accounts, providers) == Ordered(InnerJoin(accounts, providers))

\* The results getMany() can give for the candidate query.
getMany(accounts, providers) ==
  { Take(s, TakeLimit) : s \in Ordered(InnerJoin(accounts, providers)) }

\* accountRepo.findOne({ where: { id }, relations: ['provider'] }).  With
\* id undefined the condition is dropped by the ORM: any row, or none.
findOneAccount(id, accounts, providers) ==
  LET rows == LeftJoin(accounts, providers)
      hit  == { a \in rows : a.id = id }
  IN  IF id = 0 THEN rows \cup {NoAccount}
      ELSE IF hit = {} THEN {NoAccount} ELSE hit

\* providerRepo.findOne({ where: { id } }).
findOneProvider(id, providers) ==
  IF id \in DOMAIN providers THEN providers[id] ELSE NoProvider

\* sendEmail without the comparison: every send goes through the cached pair.
NotTheDefault_Never(accountId, dflt) == FALSE

\* sendEmail looking the account up on every send.
NotTheDefault_Always(accountId, dflt) == TRUE

\* accountId !== this.defaultAccount?.id   (sendEmail)
NotTheDefault(accountId, dflt) == accountId # dflt.id

\* resetDefault with its comparison dropped: every call runs the selector.
IsTheDefault_Always(accountId, dflt) == TRUE

\* accountId === this.defaultAccount?.id   (resetDefault)
IsTheDefault(accountId, dflt) == accountId = dflt.id

\* The update guard testing the wrong status.
ShouldSetInactive_WhenInactive(provider) ==
  provider.id # 0 /\ provider.status = "inactive"

\* The update guard without its status test.
ShouldSetInactive_AnyStatus(provider) == provider.id # 0

\* existingProvider && provider.status === ProviderStatus.active
ShouldSetInactive(provider) == provider.id # 0 /\ provider.status = "active"

\* validateTransport without its try/catch: a failed verify() is rethrown.
validateTransportResult_Rethrows(provider, verified) ==
  IF verified
    THEN [raised |-> FALSE, isValid |-> TRUE, message |-> ""]
    ELSE [raised |-> TRUE, isValid |-> FALSE, message |-> ""]

\* What validateTransport returns once verify() has settled.
validateTransportResult(provider, verified) ==
  IF verified
    THEN [raised |-> FALSE, isValid |-> TRUE, message |-> ""]
    ELSE [raised |-> FALSE, isValid |-> FALSE,
          message |-> IF provider.id # 0
                        THEN "Configurations is not valid for provider with ID"
                        ELSE "Configurations is not valid for provider"]

\* The loop committing a candidate whatever its validation said.
SelectorCommits_Always(isValid) == TRUE

\* if (isValid) { this.setDefaults(account); ... break; }
SelectorCommits(isValid) == isValid

\* What setDefaults does once it holds the provider: the new binding, and
\* whether building the transport threw after defaultAccount was assigned.
setDefaultsCommit(account, provider, oldTransporter) ==
  IF createTransportThrows(provider)
    THEN [defaultAccount |-> account, transporter |-> oldTransporter, threw |-> TRUE]
    ELSE [defaultAccount |-> account,
          transporter |-> createTransport(provider, account.email, account, "setDefaults"),
          threw |-> FALSE]

\* getDefaultAccount() returning the account's id next to its email.
getDefaultAccountResult_WithId(dflt) ==
  IF dflt = NoAccount
    THEN [status |-> 404, message |-> "No default account found", data |-> {}]
    ELSE [status |-> 200, message |-> "",
          data |-> { <<"email", dflt.email>>, <<"id", dflt.id>> }]

\* getDefaultAccount(): the status and the data it returns.
getDefaultAccountResult(dflt) ==
  IF dflt = NoAccount
    THEN [status |-> 404, message |-> "No default account found", data |-> {}]
    ELSE [status |-> 200, message |-> "", data |-> { <<"email", dflt.email>> }]

\* What sendEmail resolves with once sendMail gave the receipt `info` (its
\* messageId, not 0): the receipt is logged and the function ends without a
\* return statement, so the caller gets undefined (0).
sendEmailReturn(info) == 0

RECURSIVE NextWithProvider(_, _)
\* The first position from i on whose account has a provider: `if (account.provider)`.
NextWithProvider(data, i) ==
  IF i > Len(data) THEN i
  ELSE IF data[i].provider # NoProvider THEN i
  ELSE NextWithProvider(data, i + 1)

\* The loop of initialize from position i up to its next await: it reaches
\* the end of data (returns), or starts validateTransport on a candidate,
\* whose createTransport throws or whose verify() is awaited.
SelectorAdvance(call, i, dflt) ==
  LET j == NextWithProvider(call.data, i) IN
  IF j > Len(call.data)
    THEN [call EXCEPT !.pc = "returned", !.index = j]
  ELSE IF createTransportThrows(call.data[j].provider)
    THEN [call EXCEPT !.pc = "raised", !.error = "TypeError", !.index = j,
                      !.account = call.data[j], !.provider = call.data[j].provider]
  ELSE [call EXCEPT !.pc = "verify", !.index = j,
                    !.account = call.data[j],
                    !.provider = call.data[j].provider,
                    !.email = call.data[j].email,
                    !.transporter = createTransport(call.data[j].provider,
                                      call.data[j].email, dflt, "validateTransport"),
                    !.built = TRUE]

-----------------------------------------------------------------------------
(* The state after construction *)

Init ==
  /\ \E cfg \in StartConfigurations :
       /\ shouldSetDefaultAccountOnMount = cfg[1]
       /\ accountRepo = cfg[2]
  /\ booted = FALSE
  /\ providerRepo = [p \in ProviderIds |-> ProviderRow(p, "active")]
  /\ pendingUpdates = [p \in ProviderIds |-> 0]
  /\ defaultAccount = NoAccount
  /\ transporter = NoTransport
  /\ calls = [c \in CallIds |-> IdleCall]
  /\ served = 0
  /\ validated = {}
  /\ ev = NoEvent

\* A call that returned or raised frees its slot; the step is recorded in ev.
Conclude(name, c, call) ==
  /\ calls' = [calls EXCEPT ![c] = IF call.pc \in {"returned", "raised"}
                                     THEN IdleCall ELSE call]
  /\ ev' = Event(name, c, call)

\* A request is accepted once the module is initialised; it takes the first
\* free slot (which slot holds a call makes no difference to the service).
Accept(c) ==
  /\ booted
  /\ served < MaxCalls
  /\ calls[c].pc = "idle"
  /\ \A d \in Slots : d < c => calls[d].pc # "idle"
  /\ Cardinality({ d \in CallIds : calls[d].pc # "idle" }) < Cardinality(Slots)
  /\ served' = served + 1

Binding == <<defaultAccount, transporter>>
Stores == <<accountRepo, providerRepo, pendingUpdates>>
Boot == <<shouldSetDefaultAccountOnMount, booted>>

-----------------------------------------------------------------------------
(* onModuleInit and initialize *)

\* onModuleInit: starts initialize() without awaiting it and returns.
onModuleInit ==
  /\ ~booted
  /\ booted' = TRUE
  /\ Conclude("onModuleInit", BootCall,
              IF shouldSetDefaultAccountOnMount
                THEN [IdleCall EXCEPT !.op = "initialize", !.pc = "getMany"]
                ELSE [IdleCall EXCEPT !.op = "onModuleInit", !.pc = "returned"])
  /\ UNCHANGED <<shouldSetDefaultAccountOnMount, Binding, Stores, served, validated>>

\* resetDefault comparing its accountId with the bound id once more before
\* it clears.
BindingAfterSelector_Rechecks(call, binding) ==
  IF /\ call.op = "resetDefault" /\ call.pc = "returned" /\ ~call.defaultAccountIsSet
     /\ call.accountId = binding[1].id
    THEN <<NoAccount, NoTransport>>
    ELSE binding

\* The binding once the selector's caller has the selector's result:
\* resetDefault clears the binding when initialize returned false.
BindingAfterSelector(call, binding) ==
  IF call.op = "resetDefault" /\ call.pc = "returned" /\ ~call.defaultAccountIsSet
    THEN <<NoAccount, NoTransport>>
    ELSE binding

\* The call with, in `cleared`, the id of the account whose binding the
\* step of the call cleared (0: it cleared none).
WithCleared(call, before, after) ==
  [call EXCEPT !.cleared = IF after[1] = NoAccount THEN before[1].id ELSE 0]

\* initialize: getMany() resolves; the loop runs up to its first await.
initializeFetched(c) ==
  /\ calls[c].pc = "getMany"
  /\ \E data \in getMany(accountRepo, providerRepo) :
       LET call == SelectorAdvance([calls[c] EXCEPT !.data = data], 1, defaultAccount)
           after == BindingAfterSelector(call, Binding)
       IN  /\ defaultAccount' = after[1]
           /\ transporter' = after[2]
           /\ Conclude("initializeFetched", c, WithCleared(call, Binding, after))
  /\ UNCHANGED <<Boot, Stores, served, validated>>

\* verify() of the transport under validation settles.  validateTransport
\* returns its result (and may fire the status update); when the selector
\* called it, the loop goes on in the same turn: it commits the candidate,
\* or moves to the next one, or ends.
verifySettled(c, verified) ==
  /\ calls[c].pc = "verify"
  /\ LET call   == calls[c]
         res    == validateTransportResult(call.provider, verified)
         update == ~verified /\ ShouldSetInactive(call.provider)
         seen   == [call EXCEPT !.isValid = res.isValid, !.message = res.message,
                                !.updateIssued = update,
                                !.tried = Append(call.tried,
                                            [id |-> call.account.id,
                                             providerId |-> call.provider.id,
                                             status |-> call.provider.status,
                                             isValid |-> res.isValid])]
     IN  /\ validated' = IF res.isValid /\ call.provider.id # 0
                           THEN validated \cup {call.provider.id}
                           ELSE validated
         /\ pendingUpdates' =
              IF update
                THEN [pendingUpdates EXCEPT ![call.provider.id] = @ + 1]
                ELSE pendingUpdates
         /\ IF res.raised
              THEN /\ Conclude("verifySettled", c,
                               [seen EXCEPT !.pc = "raised", !.error = "verify"])
                   /\ UNCHANGED Binding
            ELSE IF call.op = "validateTransport"
              THEN /\ Conclude("verifySettled", c, [seen EXCEPT !.pc = "returned"])
                   /\ UNCHANGED Binding
            ELSE IF SelectorCommits(res.isValid)
              THEN LET commit == setDefaultsCommit(call.account, call.provider, transporter)
                   IN  /\ defaultAccount' = commit.defaultAccount
                       /\ transporter' = commit.transporter
                       /\ Conclude("verifySettled", c,
                                   [seen EXCEPT !.pc = "returned",
                                                !.defaultAccountIsSet = TRUE])
            ELSE LET next == SelectorAdvance(seen, call.index + 1, defaultAccount)
                     after == BindingAfterSelector(next, Binding)
                 IN  /\ defaultAccount' = after[1]
                     /\ transporter' = after[2]
                     /\ Conclude("verifySettled", c, WithCleared(next, Binding, after))
  /\ UNCHANGED <<Boot, accountRepo, providerRepo, served>>

\* The fire-and-forget providerRepo.update settles: the row becomes
\* inactive, or the .catch handler logs the failure.
updateSettled(p, ok) ==
  /\ pendingUpdates[p] > 0
  /\ pendingUpdates' = [pendingUpdates EXCEPT ![p] = @ - 1]
  /\ providerRepo' = IF ok THEN [providerRepo EXCEPT ![p].status = "inactive"]
                           ELSE providerRepo
  /\ ev' = NoEvent
  /\ UNCHANGED <<Boot, accountRepo, Binding, calls, served, validated>>

-----------------------------------------------------------------------------
(* Requests *)

\* validateTransport(provider, email) called from outside the selector.
validateTransport(c, provider, email) ==
  /\ Accept(c)
  /\ LET call == [IdleCall EXCEPT !.op = "validateTransport", !.provider = provider,
                                  !.email = email]
     IN  IF createTransportThrows(provider)
           THEN Conclude("validateTransport", c,
                         [call EXCEPT !.pc = "raised", !.error = "TypeError"])
           ELSE Conclude("validateTransport", c,
                         [call EXCEPT !.pc = "verify", !.built = TRUE,
                            !.transporter = createTransport(provider, email,
                                              defaultAccount, "validateTransport")])
  /\ UNCHANGED <<Boot, Stores, Binding, validated>>

\* setDefaults(account): with the provider attached it runs to its end at
\* once; otherwise it awaits providerRepo.findOne.
setDefaults(c, account) ==
  /\ Accept(c)
  /\ LET call == [IdleCall EXCEPT !.op = "setDefaults", !.account = account]
     IN  IF account.provider # NoProvider
           THEN LET commit == setDefaultsCommit(account, account.provider, transporter)
                IN  /\ defaultAccount' = commit.defaultAccount
                    /\ transporter' = commit.transporter
                    /\ Conclude("setDefaults", c,
                                IF commit.threw
                                  THEN [call EXCEPT !.pc = "raised", !.error = "TypeError"]
                                  ELSE [call EXCEPT !.pc = "returned", !.built = TRUE])
           ELSE /\ Conclude("setDefaults", c,
                            [call EXCEPT !.pc = "findProvider", !.looked = TRUE])
                /\ UNCHANGED Binding
  /\ UNCHANGED <<Boot, Stores, validated>>

\* setDefaults: providerRepo.findOne resolves.
setDefaultsFound(c) ==
  /\ calls[c].pc = "findProvider"
  /\ LET call == calls[c]
         resp == findOneProvider(call.account.providerId, providerRepo)
     IN  IF resp = NoProvider
           THEN /\ Conclude("setDefaultsFound", c,
                       [call EXCEPT !.pc = "raised",
                                    !.error = "Missing provider configuration"])
                /\ UNCHANGED Binding
           ELSE LET commit == setDefaultsCommit(call.account, resp, transporter)
                IN  /\ defaultAccount' = commit.defaultAccount
                    /\ transporter' = commit.transporter
                    /\ Conclude("setDefaultsFound", c,
                                IF commit.threw
                                  THEN [call EXCEPT !.pc = "raised", !.error = "TypeError",
                                                    !.provider = resp]
                                  ELSE [call EXCEPT !.pc = "returned", !.built = TRUE,
                                                    !.provider = resp])
  /\ UNCHANGED <<Boot, Stores, served, validated>>

\* resetDefault(accountId): runs the selector when the id is the default's.
resetDefault(c, accountId) ==
  /\ Accept(c)
  /\ LET call == [IdleCall EXCEPT !.op = "resetDefault", !.accountId = accountId,
                                  !.dfltAtCall = defaultAccount,
                                  !.cachedAtCall = transporter]
     IN  IF IsTheDefault(accountId, defaultAccount)
           THEN Conclude("resetDefault", c, [call EXCEPT !.pc = "getMany"])
           ELSE Conclude("resetDefault", c, [call EXCEPT !.pc = "returned"])
  /\ UNCHANGED <<Boot, Stores, Binding, validated>>

\* sendEmail(dto): takes the cached pair, then looks the account up when
\* dto.accountId is not the default's id.
sendEmail(c, accountId) ==
  /\ Accept(c)
  /\ LET call == [IdleCall EXCEPT !.op = "sendEmail", !.accountId = accountId,
                                  !.transporter = transporter,
                                  !.account = defaultAccount,
                                  !.dfltAtCall = defaultAccount,
                                  !.cachedAtCall = transporter]
     IN  IF NotTheDefault(accountId, defaultAccount)
           THEN Conclude("sendEmail", c, [call EXCEPT !.pc = "findAccount", !.looked = TRUE])
         ELSE IF call.transporter = NoTransport
           THEN Conclude("sendEmail", c,
                         [call EXCEPT !.pc = "raised", !.error = "Action cannot be completed!"])
         ELSE Conclude("sendEmail", c,
                       [call EXCEPT !.pc = "sendMail", !.from = call.account.email])
  /\ UNCHANGED <<Boot, Stores, Binding, validated>>

\* sendEmail: accountRepo.findOne resolves.
sendEmailFound(c) ==
  /\ calls[c].pc = "findAccount"
  /\ \E resp \in findOneAccount(calls[c].accountId, accountRepo, providerRepo) :
       LET call == calls[c] IN
       IF resp.provider = NoProvider
         THEN Conclude("sendEmailFound", c,
                       [call EXCEPT !.pc = "raised",
                                    !.error = "Missing provider configuration"])
       ELSE IF createTransportThrows(resp.provider)
         THEN Conclude("sendEmailFound", c,
                       [call EXCEPT !.pc = "raised", !.error = "TypeError",
                                    !.account = resp])
       ELSE Conclude("sendEmailFound", c,
                     [call EXCEPT !.pc = "sendMail", !.account = resp, !.built = TRUE,
                                  !.from = resp.email,
                                  !.transporter = createTransport(resp.provider, resp.email,
                                                    defaultAccount, "sendEmail")])
  /\ UNCHANGED <<Boot, Stores, Binding, served, validated>>

\* sendEmail: transporter.sendMail settles; a failure is propagated.
sendMailSettled(c, sent) ==
  /\ calls[c].pc = "sendMail"
  /\ Conclude("sendMailSettled", c,
              IF sent THEN [calls[c] EXCEPT !.pc = "returned", !.info = 1,
                                            !.result = sendEmailReturn(1)]
                      ELSE [calls[c] EXCEPT !.pc = "raised", !.error = "sendMail"])
  /\ UNCHANGED <<Boot, Stores, Binding, served, validated>>

\* getDefaultAccount(): synchronous.  `follows` is the operation whose
\* successful return was the step before this call.
getDefaultAccount(c) ==
  /\ Accept(c)
  /\ LET res == getDefaultAccountResult(defaultAccount)
     IN  Conclude("getDefaultAccount", c,
                  [IdleCall EXCEPT !.op = "getDefaultAccount", !.pc = "returned",
                                   !.status = res.status, !.message = res.message,
                                   !.body = res.data,
                                   !.follows = IF ev.call.pc = "returned"
                                                 THEN ev.call.op ELSE "none",
                                   !.dfltAtCall = defaultAccount])
  /\ UNCHANGED <<Boot, Stores, Binding, validated>>

-----------------------------------------------------------------------------
(* The arguments requests are called with *)

\* validateTransport's arguments: a saved row with a mailbox, or a provider
\* not saved yet with no mailbox given.
ValidateArgs ==
  { <<providerRepo[p], "new@mail">> : p \in {1, 3} } \cup { <<UnsavedProvider, "">> }

\* Account entities a caller can hold: a row with its provider attached
\* when it has one, or the bare row.  Of the accounts of one provider the
\* oldest is the one callers pass.
AccountArgs ==
  { a \in LeftJoin(accountRepo, providerRepo) :
      \A b \in accountRepo : b.providerId = a.providerId => a.createdAt <= b.createdAt }
    \cup { a \in accountRepo : a.id = 1 }

\* dto.accountId: absent (0), the bound default's id, the id of a stored
\* account (of a usable provider, of a provider without SMTP descriptor, of
\* a provider that is gone), and an id no account has.
SendArgs ==
  {0, defaultAccount.id, UnknownAccountId}
    \cup { a.id : a \in { x \in accountRepo : x.id \in {1, 4, 5} } }

\* resetDefault's accountId: absent (0), the bound default's id, and an id
\* that is not the default's.
ResetArgs == {0, defaultAccount.id, UnknownAccountId}

Next ==
  \/ onModuleInit
  \/ \E c \in CallIds : initializeFetched(c)
  \/ \E c \in CallIds, verified \in BOOLEAN : verifySettled(c, verified)
  \/ \E p \in ProviderIds, ok \in BOOLEAN : updateSettled(p, ok)
  \/ \E c \in Slots, arg \in ValidateArgs : validateTransport(c, arg[1], arg[2])
  \/ \E c \in Slots, account \in AccountArgs : setDefaults(c, account)
  \/ \E c \in Slots : setDefaultsFound(c)
  \/ \E c \in Slots, accountId \in ResetArgs : resetDefault(c, accountId)
  \/ \E c \in Slots, accountId \in SendArgs : sendEmail(c, accountId)
  \/ \E c \in Slots : sendEmailFound(c)
  \/ \E c \in Slots, sent \in BOOLEAN : sendMailSettled(c, sent)
  \/ \E c \in Slots : getDefaultAccount(c)

Spec == Init /\ [][Next]_vars

-----------------------------------------------------------------------------
(* Properties *)

\* The calls in flight and the call the last step ended.
Records == { calls[c] : c \in CallIds } \cup { ev.call }

SelectorOps == {"initialize", "resetDefault"}

Last(s) == s[Len(s)]

\* C1: whenever a default is bound, sendEmail with accountId absent or equal
\* to the default's id sends through the cached default transporter: it
\* performs no account lookup and builds no transport.
C1_DefaultSendUsesCachedTransport ==
  \A r \in Records :
    ( /\ r.op = "sendEmail"
      /\ r.dfltAtCall # NoAccount
      /\ r.cachedAtCall # NoTransport
      /\ (r.accountId = 0 \/ r.accountId = r.dfltAtCall.id) )
    => /\ ~r.looked
       /\ ~r.built
       /\ r.transporter = r.cachedAtCall
       /\ r.error \notin {"Missing provider configuration", "TypeError"}

\* C2: resetDefault with no id, from any state, re-runs the selector; when
\* no candidate validates in that run, the binding is cleared once
\* resetDefault has returned and getDefaultAccount reports 404.
C2_ResetWithoutIdClears ==
  ( /\ ev.call.op = "resetDefault"
    /\ ev.call.accountId = 0
    /\ ev.call.pc = "returned" )
  => /\ ev.name # "resetDefault"
     /\ (\A k \in DOMAIN ev.call.tried : ~ev.call.tried[k].isValid)
          => /\ defaultAccount = NoAccount
             /\ transporter = NoTransport
             /\ getDefaultAccountResult(defaultAccount).status = 404

\* resetDefault was given an id that is not the id of the default bound
\* when it was called.
GivenOtherId(r) ==
  r.op = "resetDefault" /\ r.accountId # 0 /\ r.accountId # r.dfltAtCall.id

\* C3: resetDefault(x) with x given and different from the bound default's
\* id is a no-op: it returns at once, the selector is not run (no call of it
\* is left awaiting the query or a verification), nothing is validated, no
\* status update is issued, and the binding is what it was at the call.
C3_ResetOtherIdIsNoOp ==
  /\ \A c \in CallIds : ~GivenOtherId(calls[c])
  /\ GivenOtherId(ev.call)
       => /\ ev.name = "resetDefault"
          /\ ev.call.pc = "returned"
          /\ ev.call.data = <<>>
          /\ ev.call.tried = <<>>
          /\ ~ev.call.built
          /\ ~ev.call.updateIssued
          /\ defaultAccount = ev.call.dfltAtCall
          /\ transporter = ev.call.cachedAtCall

\* C3's case: a default is bound and resetDefault was called with another id.
C3_Witness ==
  /\ GivenOtherId(ev.call)
  /\ ev.call.dfltAtCall # NoAccount
  /\ defaultAccount # NoAccount

\* C4: a selector run never installs an account whose validateTransport
\* call in that run returned isValid false: the account a run binds is one
\* the run validated, and each validation of it in the run was valid.
C4_SelectorBindsOnlyValidated ==
  \A r \in Records :
    (r.op \in SelectorOps /\ r.defaultAccountIsSet)
    => /\ \E k \in DOMAIN r.tried : r.tried[k].id = r.account.id
       /\ \A k \in DOMAIN r.tried :
            r.tried[k].id = r.account.id => r.tried[k].isValid
       /\ (r = ev.call => defaultAccount.id = r.account.id)

\* C4's case: a run that bound an account after another candidate failed.
C4_Witness ==
  /\ ev.call.op \in SelectorOps
  /\ ev.call.defaultAccountIsSet
  /\ Len(ev.call.tried) >= 2
  /\ defaultAccount.id = ev.call.account.id

\* C5: within one run the candidates are validated strictly in the fetched
\* order (provider status ascending, then createdAt ascending); the account
\* bound is the first in that order whose validation succeeds, and no
\* candidate after it is validated.
C5_SelectorOrder ==
  \A r \in Records :
    r.op \in SelectorOps
    => /\ \A i, j \in DOMAIN r.data :
            i < j => \/ StatusOrder(r.data[i].provider.status)
                          < StatusOrder(r.data[j].provider.status)
                     \/ /\ r.data[i].provider.status = r.data[j].provider.status
                        /\ r.data[i].createdAt <= r.data[j].createdAt
       /\ Len(r.tried) <= Len(r.data)
       /\ \A k \in DOMAIN r.tried : r.tried[k].id = r.data[k].id
       /\ \A k \in DOMAIN r.tried : k < Len(r.tried) => ~r.tried[k].isValid
       /\ r.pc = "verify" => r.index = Len(r.tried) + 1
       /\ r.defaultAccountIsSet
            <=> (r.tried # <<>> /\ Last(r.tried).isValid)
       /\ r.defaultAccountIsSet
            => /\ r.account.id = r.data[Len(r.tried)].id
               /\ (r = ev.call => defaultAccount.id = r.account.id)

\* C5's case: the status put a newer account first, it failed, the next
\* candidate was bound, and a later candidate was left unvalidated.
C5_Witness ==
  /\ ev.call.op \in SelectorOps
  /\ ev.call.defaultAccountIsSet
  /\ Len(ev.call.tried) = 2
  /\ Len(ev.call.data) = 3
  /\ ev.call.data[1].createdAt > ev.call.data[2].createdAt
  /\ defaultAccount.id = ev.call.data[2].id

\* The call c as the step leaves it: in its slot, or in ev when the step
\* ended it.
After(c) == IF calls'[c].pc = "idle" THEN ev'.call ELSE calls'[c]

\* The step settles the verify() that call c awaits.
VerifyStep(c) == calls[c].pc = "verify" /\ calls'[c] # calls[c]

\* The step settles the verify() that call c awaits, and verify() failed.
VerifyFailedStep(c) == VerifyStep(c) /\ ~Last(After(c).tried).isValid

\* The step settles a status update of provider p.
UpdateStep(p) == pendingUpdates'[p] < pendingUpdates[p]

\* C6 as claimed: after validateTransport failed for a provider with a
\* persisted id and status active, a lookup of the provider in the store
\* shows inactive.
C6_FailedActiveProviderShowsInactive ==
  \A r \in Records : \A k \in DOMAIN r.tried :
    ( /\ ~r.tried[k].isValid
      /\ r.tried[k].providerId # 0
      /\ r.tried[k].status = "active" )
    => providerRepo[r.tried[k].providerId].status = "inactive"

\* C6 as amended: a failed validation of a provider with a persisted id and
\* loaded status active issues one status update for that provider; an
\* update that settles leaves the row inactive or, when it failed, as it
\* was; and a row that is inactive stays inactive.
C6_FailedValidationRequestsInactive ==
  [][ /\ \A c \in CallIds :
           ( /\ VerifyFailedStep(c)
             /\ calls[c].provider.id # 0
             /\ calls[c].provider.status = "active" )
           => /\ pendingUpdates'[calls[c].provider.id]
                   = pendingUpdates[calls[c].provider.id] + 1
              /\ After(c).updateIssued
      /\ \A p \in ProviderIds :
           /\ UpdateStep(p)
                => \/ providerRepo' = [providerRepo EXCEPT ![p].status = "inactive"]
                   \/ providerRepo' = providerRepo
           /\ providerRepo[p].status = "inactive"
                => providerRepo'[p].status = "inactive"
    ]_vars

\* C6's case: validateTransport failed for a saved active provider, the
\* update it fired is still pending and the stored status is still active.
C6_Witness ==
  /\ ev.call.op = "validateTransport"
  /\ ev.call.pc = "returned"
  /\ ~ev.call.isValid
  /\ ev.call.provider.id # 0
  /\ ev.call.provider.status = "active"
  /\ pendingUpdates[ev.call.provider.id] > 0
  /\ providerRepo[ev.call.provider.id].status = "active"

\* C7: a validation that fails for a provider whose status is already
\* inactive issues no status update and leaves the store as it is, and so
\* does a validation that succeeds.
C7_NoRedundantStatusWrite ==
  [][ \A c \in CallIds :
        ( /\ VerifyStep(c)
          /\ \/ Last(After(c).tried).isValid
             \/ calls[c].provider.status = "inactive" )
        => /\ pendingUpdates' = pendingUpdates
           /\ providerRepo' = providerRepo
           /\ ~After(c).updateIssued
    ]_vars

\* C7's case: validateTransport has failed for a saved provider that was
\* already inactive.
C7_Witness ==
  \E r \in Records :
    /\ r.tried # <<>>
    /\ ~Last(r.tried).isValid
    /\ Last(r.tried).providerId # 0
    /\ Last(r.tried).status = "inactive"
    /\ ~r.updateIssued
    /\ providerRepo[Last(r.tried).providerId].status = "inactive"

\* C8: when verify() fails validateTransport does not raise: it returns
\* isValid false with a message; and the settling of a status update,
\* whether it succeeded or failed, changes no call and no binding, so it
\* reaches neither the caller of validateTransport nor of the selector.
C8_VerifyFailureIsReturned ==
  [][ /\ \A c \in CallIds :
           VerifyFailedStep(c)
           => /\ After(c).error # "verify"
              /\ ~After(c).isValid
              /\ After(c).message # ""
              /\ calls[c].op = "validateTransport" => After(c).pc = "returned"
      /\ \A p \in ProviderIds :
           UpdateStep(p)
           => /\ calls' = calls
              /\ defaultAccount' = defaultAccount
              /\ transporter' = transporter
    ]_vars

\* C8's case: a selector run whose candidates all failed verification has
\* returned false after firing a status update.
C8_Witness ==
  /\ ev.call.op \in SelectorOps
  /\ ev.call.pc = "returned"
  /\ ~ev.call.defaultAccountIsSet
  /\ ev.call.tried # <<>>
  /\ \A k \in DOMAIN ev.call.tried : ~ev.call.tried[k].isValid
  /\ \E p \in ProviderIds : pendingUpdates[p] > 0

\* C9: a default binding exists only if the bound account's provider passed
\* a validateTransport check before the binding was installed.
C9_BindingOnlyAfterValidation ==
  (defaultAccount # NoAccount /\ transporter # NoTransport)
  => defaultAccount.providerId \in validated

\* C10: with the boot flag set, the selector run started by onModuleInit has
\* completed before any request is served; without the flag no selector
\* runs at startup and the service starts with no default.
C10_BootSelectorBeforeRequests ==
  /\ shouldSetDefaultAccountOnMount
       => (served > 0 => calls[BootCall].pc = "idle")
  /\ ~shouldSetDefaultAccountOnMount
       => /\ calls[BootCall].pc = "idle"
          /\ served = 0 => (defaultAccount = NoAccount /\ transporter = NoTransport)

\* The step is one of the call in slot c: it moved the call, or began and
\* ended it.
StepOf(c) == calls'[c] # calls[c] \/ (ev'.name # "none" /\ ev'.c = c)

\* The step belongs to the sendEmail call in slot c.
SendStep(c) == StepOf(c) /\ After(c).op = "sendEmail"

\* The sendEmail call r reached transporter.sendMail.
Submitted(r) == r.op = "sendEmail" /\ r.from # ""

\* C11: sendEmail with an accountId that is not the bound default's id loads
\* that account with its provider and sends through a transport built in
\* this call for that provider and that email; no step of the call changes
\* defaultAccount or the cached transporter, and the handle it built is
\* never the cached one nor the one another send goes through.
C11_OtherAccountSendBuildsFreshTransport ==
  [][ /\ \A c \in Slots : SendStep(c) => UNCHANGED Binding
      /\ transporter'.by # "sendEmail"
      /\ \A c \in Slots :
           LET r == After(c) IN
           ( /\ Submitted(r)
             /\ r.accountId # 0
             /\ r.accountId # r.dfltAtCall.id )
           => /\ r.looked
              /\ r.built
              /\ r.account.id = r.accountId
              /\ r.account.provider.id = r.account.providerId
              /\ r.from = r.account.email
              /\ r.transporter.by = "sendEmail"
              /\ r.transporter.host = r.account.provider.smtp
              /\ r.transporter.user = r.account.email
              /\ r.transporter # r.cachedAtCall
              /\ r.transporter # transporter'
    ]_vars

\* C11's case: with a default bound, a send for another account has gone
\* through its own transport and returned.
C11_Witness ==
  /\ ev.call.op = "sendEmail"
  /\ ev.call.pc = "returned"
  /\ ev.call.dfltAtCall # NoAccount
  /\ ev.call.cachedAtCall # NoTransport
  /\ ev.call.accountId # 0
  /\ ev.call.accountId # ev.call.dfltAtCall.id
  /\ ev.call.built
  /\ defaultAccount = ev.call.dfltAtCall
  /\ transporter = ev.call.cachedAtCall

\* accountRepo.findOne with relations ['provider'] yields the account id
\* names together with a provider.
Resolves(accountId) ==
  \E a \in accountRepo : a.id = accountId /\ a.providerId \in DOMAIN providerRepo

\* The sendEmail call r was made with no default bound.
SentWithoutDefault(r) ==
  /\ r.op = "sendEmail"
  /\ r.dfltAtCall = NoAccount
  /\ r.cachedAtCall = NoTransport

\* C12 as claimed: a sendEmail made with no default bound, whose accountId is
\* absent or does not resolve, fails with 'Action cannot be completed!' and
\* submits no message.
C12_NoTransportFailsWithActionError ==
  \A r \in Records :
    ( /\ SentWithoutDefault(r)
      /\ (r.accountId = 0 \/ ~Resolves(r.accountId))
      /\ r.pc # "findAccount" )
    => /\ r.pc = "raised"
       /\ r.error = "Action cannot be completed!"
       /\ r.from = ""

\* C12 as amended: a sendEmail made with no default bound and no accountId
\* fails at once with 'Action cannot be completed!'; one whose accountId is
\* not the default's and does not resolve fails with 'Missing provider
\* configuration' once the lookup settled; neither submits a message, and no
\* step of a sendEmail call changes the binding.
C12_UnusableSendFailsUnchanged ==
  [][ /\ \A c \in Slots : SendStep(c) => UNCHANGED Binding
      /\ \A c \in Slots :
           LET r == After(c) IN
           /\ (SentWithoutDefault(r) /\ r.accountId = 0)
                => /\ r.pc = "raised"
                   /\ r.error = "Action cannot be completed!"
                   /\ ~r.looked
                   /\ r.from = ""
                   /\ r.info = 0
           /\ ( /\ r.op = "sendEmail"
                /\ r.accountId # 0
                /\ r.accountId # r.dfltAtCall.id
                /\ ~Resolves(r.accountId)
                /\ r.pc # "findAccount" )
                => /\ r.pc = "raised"
                   /\ r.error = "Missing provider configuration"
                   /\ ~r.built
                   /\ r.from = ""
                   /\ r.info = 0
    ]_vars

\* C12's case: with no default bound, a send naming an account that does
\* not resolve has failed, and the binding is still empty.
C12_Witness ==
  /\ SentWithoutDefault(ev.call)
  /\ ev.call.accountId # 0
  /\ ~Resolves(ev.call.accountId)
  /\ ev.call.pc = "raised"
  /\ ev.call.error = "Missing provider configuration"
  /\ defaultAccount = NoAccount
  /\ transporter = NoTransport

\* C13: when setDefaults(A) has returned, a getDefaultAccount called as the
\* next step reports status 200 and data holding A.email and nothing else.
C13_GetDefaultAfterSetDefaults ==
  [][ ( /\ ev.call.op = "setDefaults"
        /\ ev.call.pc = "returned"
        /\ ev'.call.op = "getDefaultAccount" )
      => /\ ev'.call.status = 200
         /\ ev'.call.message = ""
         /\ ev'.call.body = { <<"email", ev.call.account.email>> }
    ]_vars

\* C13's case: getDefaultAccount has answered right after a setDefaults
\* returned.
C13_Witness ==
  /\ ev.call.op = "getDefaultAccount"
  /\ ev.call.follows = "setDefaults"
  /\ ev.call.status = 200
  /\ ev.call.body = { <<"email", defaultAccount.email>> }

\* C14: a sendEmail that returned hands its caller the receipt sendMail
\* gave, with its message identifier.
C14_SendReturnsReceipt ==
  \A r \in Records :
    (r.op = "sendEmail" /\ r.pc = "returned")
    => /\ r.info # 0
       /\ r.result = r.info

\* The auth type C15 expects for a provider.
AuthTypeOf(provider) ==
  IF provider.connectionType = "oAuth" THEN "oauth2" ELSE "login"

\* The providers createTransport can be given and build a handle for.
BuildableProviders ==
  { q \in { providerRepo[p] : p \in DOMAIN providerRepo } \cup {UnsavedProvider} :
      ~createTransportThrows(q) }

\* The handles the service and its calls hold.
Handles ==
  ({transporter} \cup { r.transporter : r \in Records }
     \cup { r.cachedAtCall : r \in Records }) \ {NoTransport}

\* C15: the options createTransport builds carry auth type 'oauth2' for a
\* provider whose connection type is oAuth and 'login' for any other,
\* whatever the email given and whatever the default bound; so does every
\* handle the service holds.
C15_AuthTypeFollowsConnectionType ==
  /\ \A provider \in BuildableProviders :
       \A email \in {"", "new@mail"} \cup { a.email : a \in accountRepo } :
         \A dflt \in {NoAccount, defaultAccount} :
           createTransport(provider, email, dflt, "createTransport").type
             = AuthTypeOf(provider)
  /\ \A h \in Handles : \A provider \in BuildableProviders :
       h.host = provider.smtp => h.type = AuthTypeOf(provider)

\* C15's case: the default is bound through an oAuth provider while a call
\* holds a handle built for a password provider.
C15_Witness ==
  /\ defaultAccount # NoAccount
  /\ providerRepo[defaultAccount.providerId].connectionType = "oAuth"
  /\ transporter.type = "oauth2"
  /\ \E r \in Records :
       /\ r.built
       /\ r.transporter.type = "login"
       /\ r.transporter.host # transporter.host

\* C16: defaultAccount is set exactly when transporter is set, and the
\* cached transporter is the handle setDefaults built for the bound
\* account's provider and email; a send through the default goes out with
\* the bound account's email and that handle.
C16_BindingIsPaired ==
  /\ defaultAccount = NoAccount <=> transporter = NoTransport
  /\ defaultAccount # NoAccount
       => /\ transporter.by = "setDefaults"
          /\ transporter.user = defaultAccount.email
          /\ defaultAccount.providerId \in DOMAIN providerRepo
          /\ transporter.host = providerRepo[defaultAccount.providerId].smtp
  /\ \A r \in Records :
       (Submitted(r) /\ ~r.looked)
       => /\ r.from = r.dfltAtCall.email
          /\ r.transporter.user = r.from

\* The step is one of the setDefaults call in slot c, and the call raised.
SetDefaultsRaisedStep(c) ==
  /\ StepOf(c)
  /\ After(c).op = "setDefaults"
  /\ After(c).pc = "raised"

\* C18: a setDefaults call that raises, with 'Missing provider
\* configuration' or because the transport cannot be built, leaves
\* defaultAccount and transporter as they were.
C18_FailedSetDefaultsKeepsBinding ==
  [][ \A c \in Slots : SetDefaultsRaisedStep(c) => UNCHANGED Binding ]_vars

\* The step is one of the resetDefault call in slot c, which was given an
\* account id, and clears a binding.
ResetClearsStep(c) ==
  /\ StepOf(c)
  /\ After(c).op = "resetDefault"
  /\ After(c).accountId # 0
  /\ defaultAccount # NoAccount
  /\ defaultAccount' = NoAccount

\* C17 as claimed: under any interleaving, the binding a resetDefault(x)
\* call clears is a binding of the account whose id is x; a binding
\* installed for another account while the call awaited the selector is
\* left in place.
C17_ResetClearsOnlyItsAccount ==
  [][ \A c \in Slots :
        ResetClearsStep(c) => defaultAccount.id = After(c).accountId ]_vars

\* The step ends the resetDefault call in slot c, whose selector run
\* returned false.
ResetFoundNoneStep(c) ==
  /\ calls[c].op = "resetDefault"
  /\ calls[c].pc \in {"getMany", "verify"}
  /\ After(c).pc = "returned"
  /\ ~After(c).defaultAccountIsSet

\* C17 as amended: resetDefault compares its accountId with the bound id
\* only when it is called; the step in which its selector run returns false
\* clears the binding in place at that moment, whatever account it is of;
\* the step in which the run found a candidate binds that candidate; any
\* other step of the call leaves the binding as it is.
C17_ResetClearsBindingInPlace ==
  [][ \A c \in Slots :
        (StepOf(c) /\ After(c).op = "resetDefault")
        => IF ResetFoundNoneStep(c)
             THEN /\ defaultAccount' = NoAccount
                  /\ transporter' = NoTransport
                  /\ After(c).cleared = defaultAccount.id
           ELSE IF After(c).defaultAccountIsSet
             THEN defaultAccount' = After(c).account
           ELSE UNCHANGED Binding ]_vars

\* C17's case: a resetDefault(x) call has cleared the binding of an account
\* other than x.
C17_Witness ==
  /\ ev.call.op = "resetDefault"
  /\ ev.call.pc = "returned"
  /\ ev.call.accountId # 0
  /\ ev.call.dfltAtCall.id = ev.call.accountId
  /\ ev.call.cleared # 0
  /\ ev.call.cleared # ev.call.accountId
  /\ defaultAccount = NoAccount
  /\ transporter = NoTransport

\* C19 as claimed: whenever a default is bound, the stored status of the
\* bound account's provider is active.
C19_BoundProviderIsActive ==
  (defaultAccount # NoAccount /\ defaultAccount.providerId \in DOMAIN providerRepo)
  => providerRepo[defaultAccount.providerId].status = "active"

\* The step settles the getMany() that the selector run of call c awaits.
FetchStep(c) == calls[c].pc = "getMany" /\ calls'[c] # calls[c]

\* C19 as amended: the provider status is not a condition of a binding.  The
\* selector fetches the accounts of inactive providers with the others;
\* it binds the candidate whose validation succeeded, whatever the status
\* of its provider; and neither a failed validation requested for a
\* provider nor the status update that follows changes the binding.
C19_StatusDoesNotGateBinding ==
  [][ /\ \A c \in CallIds :
           ( /\ FetchStep(c)
             /\ Cardinality(InnerJoin(accountRepo, providerRepo)) <= TakeLimit )
           => { After(c).data[i].id : i \in DOMAIN After(c).data }
                = { a.id : a \in InnerJoin(accountRepo, providerRepo) }
      /\ \A c \in CallIds :
           ( /\ VerifyStep(c)
             /\ calls[c].op \in SelectorOps
             /\ Last(After(c).tried).isValid )
           => /\ After(c).defaultAccountIsSet
              /\ defaultAccount' = calls[c].account
              /\ transporter'.user = calls[c].account.email
      /\ \A c \in Slots :
           (VerifyFailedStep(c) /\ calls[c].op = "validateTransport")
           => UNCHANGED Binding
      /\ \A p \in ProviderIds : UpdateStep(p) => UNCHANGED Binding
    ]_vars

\* C19's case: the selector has bound a candidate whose provider it
\* fetched inactive, and the default is bound through a provider stored
\* inactive.
C19_Witness ==
  /\ ev.call.op \in SelectorOps
  /\ ev.call.defaultAccountIsSet
  /\ Last(ev.call.tried).status = "inactive"
  /\ defaultAccount = ev.call.account
  /\ providerRepo[defaultAccount.providerId].status = "inactive"

\* The accounts at least TakeLimit older accounts of the same provider come
\* before: whatever the provider statuses, the query orders them after its
\* first TakeLimit rows.
BeyondTake ==
  { a \in accountRepo :
      Cardinality({ b \in accountRepo : /\ b.providerId = a.providerId
                                        /\ b.createdAt < a.createdAt })
        >= TakeLimit }

\* The step is one of the selector run of call c.
SelectorStep(c) ==
  /\ calls[c].op \in SelectorOps
  /\ calls[c].pc \in {"getMany", "verify"}
  /\ calls'[c] # calls[c]

\* C20: a selector run fetches at most 5 candidates and validates at most
\* 5, each of them fetched; an account ordered after the first 5 is not
\* fetched, validated or bound by the run, whatever the outcome for the 5;
\* the run returns true exactly when it installed a binding, and a run that
\* returns false leaves the binding as it is (resetDefault, its caller,
\* then clears it).
C20_SelectorTakesAtMostFive ==
  [][ \A c \in CallIds :
        SelectorStep(c)
        => LET r == After(c) IN
           /\ Len(r.data) <= TakeLimit
           /\ Len(r.tried) <= TakeLimit
           /\ \A k \in DOMAIN r.tried :
                \E i \in DOMAIN r.data : r.data[i].id = r.tried[k].id
           /\ \A a \in BeyondTake :
                /\ \A i \in DOMAIN r.data : r.data[i].id # a.id
                /\ \A k \in DOMAIN r.tried : r.tried[k].id # a.id
                /\ r.defaultAccountIsSet => defaultAccount'.id # a.id
           /\ r.defaultAccountIsSet
                => /\ r.pc = "returned"
                   /\ defaultAccount' = r.account
                   /\ transporter'
                        = createTransport(r.account.provider, r.account.email,
                                          r.account, "setDefaults")
           /\ (~r.defaultAccountIsSet /\ ~(r.op = "resetDefault" /\ r.pc = "returned"))
                => UNCHANGED Binding
           /\ (~r.defaultAccountIsSet /\ r.op = "resetDefault" /\ r.pc = "returned")
                => (UNCHANGED Binding \/ defaultAccount' = NoAccount)
    ]_vars

\* C20's case: with more than 5 candidate accounts stored, a selector run
\* has returned false after 5 failed validations.
C20_Witness ==
  /\ ev.call.op \in SelectorOps
  /\ ev.call.pc = "returned"
  /\ ~ev.call.defaultAccountIsSet
  /\ Len(ev.call.data) = TakeLimit
  /\ Len(ev.call.tried) = TakeLimit
  /\ BeyondTake # {}
  /\ Cardinality(InnerJoin(accountRepo, providerRepo)) > TakeLimit

====
